---- MODULE Spec2Model ----
(***************************************************************************)
(* FreeRide (src/freeride.py): the comment-preserving merge of ranked free *)
(* models into the tiers of config.yaml, and the update handler around it. *)
(*                                                                         *)
(* Text is modelled at token level.  A line is a sequence of tokens; the   *)
(* characters the code tests for (' ', '#', '-', ':', '/', '@') are tokens  *)
(* of their own and never occur inside a word token, so the concatenation  *)
(* of a line's tokens is the line's text.  File content is the list        *)
(* content.split('\n'): a non-empty sequence of lines, whose last line is  *)
(* empty when the content ends with a newline; '\n'.join() of that list is *)
(* the content again.                                                      *)
(*                                                                         *)
(* Multispeedtest (src/multispeedtest.py): the parallel batch of           *)
(* run_tests, one future per dispatched entry.                             *)
(***************************************************************************)
EXTENDS Integers, Sequences, FiniteSets, TLC

VARIABLES
    file,       \* content of config.yaml, as lines
    exists,     \* whether config.yaml exists
    envKey,     \* whether OPENROUTER_API_KEY is set in the environment
    before,     \* content of config.yaml when the last handler started
    result,     \* what the last handler returned
    exitCode,   \* exit code of the last CLI run
    trace,      \* what the last update did to the file, step by step
    runs,       \* handlers run so far
    cands,      \* the candidate tier mapping of the rewrite passes
    call,       \* arguments of the last pure call (rank, merge)
    ret,        \* its return value
    dispatched, \* the (tier, model) entries Multispeedtest.run_tests tests
    provCfg,    \* the providers section of config.yaml, as the benchmark reads it
    envKeys,    \* the providers whose credential is set in the environment
    workers,    \* max_workers of run_tests
    futures,    \* the futures of run_tests, in submission order
    pc,         \* where the main thread of run_tests is
    yielded,    \* the futures as_completed has yielded
    results,    \* the local list results of run_tests
    self_results    \* self.results

testVars ==
    <<dispatched, provCfg, envKeys, workers, futures, pc, yielded, results, self_results>>

vars ==
    <<file, exists, envKey, before, result, exitCode, trace, runs, cands, call, ret,
      dispatched, provCfg, envKeys, workers, futures, pc, yielded, results, self_results>>

\* no benchmark is running
NoTests ==
    /\ dispatched = <<>>
    /\ provCfg = [kind |-> "absent"]
    /\ envKeys = {}
    /\ workers = 1
    /\ futures = <<>>
    /\ pc = "idle"
    /\ yielded = {}
    /\ results = <<>>
    /\ self_results = <<>>

-----------------------------------------------------------------------------
(* Strings *)

SP == " "

At(s, i) == s[i + 1]    \* Python's 0-based s[i]

RECURSIVE LStrip(_)
LStrip(l) == IF l # <<>> /\ Head(l) = SP THEN LStrip(Tail(l)) ELSE l

RECURSIVE RStrip(_)
RStrip(l) == IF l # <<>> /\ l[Len(l)] = SP THEN RStrip(SubSeq(l, 1, Len(l) - 1)) ELSE l

Strip(l) == RStrip(LStrip(l))

\* len(line) - len(line.lstrip())
Indent(l) == Len(l) - Len(LStrip(l))

StartsWith(l, p) == Len(l) >= Len(p) /\ SubSeq(l, 1, Len(p)) = p

EndsWith(l, p) == Len(l) >= Len(p) /\ SubSeq(l, Len(l) - Len(p) + 1, Len(l)) = p

HasTok(l, t) == \E i \in 1..Len(l) : l[i] = t

\* index of the first occurrence of token t in l (0 when there is none)
RECURSIVE FirstTok(_, _, _)
FirstTok(l, t, i) ==
    IF i > Len(l) THEN 0 ELSE IF l[i] = t THEN i ELSE FirstTok(l, t, i + 1)

\* s.split(':')[0]
SplitKey(s) ==
    LET p == FirstTok(s, ":", 1) IN IF p = 0 THEN s ELSE SubSeq(s, 1, p - 1)

\* str.lower(), on the words of the vocabulary that have upper-case letters
LowerTok(t) ==
    CASE t = "MINI" -> "mini"
      [] t = "FREE" -> "free"
      [] t = "OpenRouter" -> "openrouter"
      [] t = "OPUS" -> "opus"
      [] OTHER -> t

Lower(s) == [i \in 1..Len(s) |-> LowerTok(s[i])] \o <<>>

\* w.startswith(k) for two words: the vocabulary's proper prefixes
WordStartsWith(w, k) == w = k \/ <<k, w>> \in {<<"hard", "hardware">>}

-----------------------------------------------------------------------------
(* yaml.safe_load, on the block-style subset the configuration uses: keys  *)
(* with or without a plain scalar value, list items with a plain scalar or *)
(* no value, comments and blank lines.  The result is the document's nodes *)
(* in document order, each with its nesting level.  Plain scalars that     *)
(* continue on a deeper line and nodes nested under an empty list item are *)
(* outside the subset (st.outside); FamilyInv states that no file of the   *)
(* model is.                                                               *)

\* what the scanner sees on a line
YKind(line) ==
    LET b == Strip(line) IN
    IF b = <<>> THEN "blank"
    ELSE IF b[1] = "#" THEN "comment"
    ELSE IF b[1] = "-" /\ (Len(b) = 1 \/ b[2] = SP) THEN "item"
    ELSE IF Len(b) >= 2 /\ b[1] \notin {"@", ":", "/"} /\ b[2] = ":" /\ (Len(b) = 2 \/ b[3] = SP)
         THEN "key"
    ELSE "bad"

\* a plain scalar ends at a '#' that follows a space
RECURSIVE CutComment(_, _)
CutComment(v, i) ==
    IF i > Len(v) THEN v
    ELSE IF v[i] = "#" /\ (i = 1 \/ v[i - 1] = SP) THEN RStrip(SubSeq(v, 1, i - 1))
    ELSE CutComment(v, i + 1)

\* the scalar on a key or item line (<<>>: none)
YVal(line) ==
    LET b == Strip(line)
        rest == IF YKind(line) = "item" THEN SubSeq(b, 3, Len(b)) ELSE SubSeq(b, 4, Len(b))
    IN  CutComment(LStrip(rest), 1)

YNode(lvl, t, k, v) == [lvl |-> lvl, t |-> t, k |-> k, v |-> v]

YInit ==
    [stack |-> <<>>, open |-> "none", seqIn |-> FALSE, scal |-> FALSE, root |-> "none",
     nodes |-> <<>>, err |-> FALSE, outside |-> FALSE]

YErr(st) == [st EXCEPT !.err = TRUE]

RECURSIVE Unwind(_, _)
Unwind(stack, c) ==
    IF stack # <<>> /\ stack[Len(stack)].ind > c
    THEN Unwind(SubSeq(stack, 1, Len(stack) - 1), c) ELSE stack

NMaps(stack) == Cardinality({i \in 1..Len(stack) : stack[i].kind = "map"})

\* the node of a key or item line is accepted: the block stack after it, and
\* whether the line is an item of a sequence at its key's indentation
YAccept(st, line, kind, v, stack, inl) ==
    [st EXCEPT
        !.stack = stack,
        !.open = IF v # <<>> THEN "none" ELSE IF kind = "key" THEN "keyval" ELSE "itemval",
        !.seqIn = inl,
        !.scal = (v # <<>>),
        !.root = IF st.root = "none" THEN (IF kind = "key" THEN "map" ELSE "seq") ELSE st.root,
        !.nodes = Append(st.nodes,
                    YNode(IF kind = "key" THEN NMaps(stack) - 1 ELSE NMaps(stack),
                          kind, IF kind = "key" THEN Strip(line)[1] ELSE "-", v))]

\* a significant line at column c, the indentation stack unwound to s2
YBlock(st, line, kind, c, v, s2, push) ==
    IF s2 = <<>>
    THEN IF st.root = "none" THEN YAccept(st, line, kind, v, push, FALSE) ELSE YErr(st)
    ELSE IF c > s2[Len(s2)].ind
    THEN IF Len(s2) = Len(st.stack) /\ st.open = "keyval"
         THEN YAccept(st, line, kind, v, push, FALSE) ELSE YErr(st)
    ELSE IF kind = "key"
    THEN IF s2[Len(s2)].kind = "map" THEN YAccept(st, line, kind, v, s2, FALSE) ELSE YErr(st)
    ELSE IF s2[Len(s2)].kind = "seq" THEN YAccept(st, line, kind, v, s2, FALSE)
    ELSE IF Len(s2) = Len(st.stack) /\ (st.open = "keyval" \/ st.seqIn)
    THEN YAccept(st, line, kind, v, s2, TRUE)
    ELSE YErr(st)

\* one significant line at column c: the scanner's indentation stack and
\* the parser's block grammar
YSignificant(st, line, kind, c) ==
    IF st.stack # <<>> /\ c > st.stack[Len(st.stack)].ind /\ st.scal
    THEN IF kind = "key" THEN YErr(st) ELSE [st EXCEPT !.err = TRUE, !.outside = TRUE]
    ELSE IF st.stack # <<>> /\ c > st.stack[Len(st.stack)].ind /\ st.open = "itemval"
    THEN [st EXCEPT !.err = TRUE, !.outside = TRUE]
    ELSE YBlock(st, line, kind, c, YVal(line), Unwind(st.stack, c),
                Append(Unwind(st.stack, c),
                       [ind |-> c, kind |-> IF kind = "key" THEN "map" ELSE "seq"]))

YKinded(st, line, kind) ==
    CASE kind = "blank" -> st
      [] kind = "comment" -> [st EXCEPT !.scal = FALSE]
      [] kind = "bad" -> YErr(st)
      [] OTHER -> YSignificant(st, line, kind, Indent(line))

YStep(st, line) == YKinded(st, line, YKind(line))

RECURSIVE YScan(_, _, _)
YScan(lines, i, st) ==
    IF i > Len(lines) \/ st.err THEN st ELSE YScan(lines, i + 1, YStep(st, lines[i]))

\* yaml.safe_load(content): raised (YAMLError), else the root's kind and nodes
Loaded(st) ==
    [raised |-> st.err, outside |-> st.outside, root |-> st.root, nodes |-> st.nodes]

safe_load(lines) == Loaded(YScan(lines, 1, YInit))

\* index of the node after the subtree of node i
RECURSIVE SubtreeEnd(_, _, _)
SubtreeEnd(nodes, lvl, j) ==
    IF j > Len(nodes) \/ nodes[j].lvl <= lvl THEN j ELSE SubtreeEnd(nodes, lvl, j + 1)

\* the Python type of the value of key node i
ValType(nodes, i) ==
    IF nodes[i].v # <<>>
    THEN IF nodes[i].v \in {<<"null">>, <<"~">>} THEN "none" ELSE "scalar"
    ELSE IF i < Len(nodes) /\ nodes[i + 1].lvl = nodes[i].lvl + 1
    THEN IF nodes[i + 1].t = "key" THEN "dict" ELSE "list"
    ELSE "none"

\* d[key] for the mapping whose keys are the nodes of level lvl in lo..hi; a
\* key given twice has its last value.  0: no such key.
FindKey(nodes, lo, hi, lvl, key) ==
    LET hits == {i \in lo..hi : nodes[i].lvl = lvl /\ nodes[i].t = "key" /\ nodes[i].k = key}
    IN  IF hits = {} THEN 0 ELSE CHOOSE i \in hits : \A j \in hits : j <= i

\* the keys of the mapping that is the value of key node i
DictKeys(nodes, i) ==
    {nodes[j].k : j \in {x \in (i + 1)..(SubtreeEnd(nodes, nodes[i].lvl, i + 1) - 1) :
                           nodes[x].lvl = nodes[i].lvl + 1 /\ nodes[x].t = "key"}}

\* models_section = config.get("models", {}), then models_section.keys():
\* ok is FALSE when the value has no keys() (None, a string, a list)
ModelsAt(nodes, i) ==
    IF i = 0 THEN [ok |-> TRUE, keys |-> {}]
    ELSE IF ValType(nodes, i) = "dict"
    THEN [ok |-> TRUE, keys |-> DictKeys(nodes, i)]
    ELSE [ok |-> FALSE, keys |-> {}]

models_section(config) ==
    ModelsAt(config.nodes, FindKey(config.nodes, 1, Len(config.nodes), 0, "models"))

-----------------------------------------------------------------------------
(* Tiers and entries *)

Tiers == <<"super_easy", "easy", "medium", "hard", "super_hard">>

TierNames == {Tiers[i] : i \in 1..Len(Tiers)}

NoTier == "none"

Entry(m, c) == [m |-> m, c |-> c]

\* a mapping with the five tiers as its keys
ByTier(F(_)) ==
    [super_easy |-> F("super_easy"), easy |-> F("easy"), medium |-> F("medium"),
     hard |-> F("hard"), super_hard |-> F("super_hard")]

EmptyTiers == LET None(t) == <<>> IN ByTier(None)

\* a normalizer that removes every recognised prefix
RECURSIVE normalize_all_prefixes(_)
normalize_all_prefixes(model_id) ==
    LET normalized == Strip(model_id)
        prefixes == {"openrouter", "anthropic", "google", "kimi", "exo", "nvidia", "lmstudio"}
    IN  IF Len(normalized) >= 2 /\ normalized[1] \in prefixes /\ normalized[2] = ":"
        THEN normalize_all_prefixes(SubSeq(normalized, 3, Len(normalized)))
        ELSE IF EndsWith(normalized, <<":", "free">>)
        THEN Lower(SubSeq(normalized, 1, Len(normalized) - 2))
        ELSE Lower(normalized)

\* At most one prefix of the list matches: every prefix ends at the first ':'.
normalize_model_id(model_id) ==
    LET normalized == Strip(model_id)
        prefixes == {"openrouter", "anthropic", "google", "kimi", "exo", "nvidia", "lmstudio"}
        p == IF Len(normalized) >= 2 /\ normalized[1] \in prefixes /\ normalized[2] = ":"
             THEN SubSeq(normalized, 3, Len(normalized)) ELSE normalized
        f == IF EndsWith(p, <<":", "free">>) THEN SubSeq(p, 1, Len(p) - 2) ELSE p
    IN  Lower(f)

has_duplicate(tier_entries, new_model) ==
    \E i \in 1..Len(tier_entries) :
        normalize_model_id(new_model) = normalize_model_id(tier_entries[i].m)

\* a commented entry written back without its list marker
CommentedLineBare(m) == <<SP, SP, "#", SP>> \o m

CommentedLine(m) == <<SP, SP, "#", SP, "-", SP>> \o m
ActiveLine(m) == <<SP, SP, "-", SP>> \o m

\* first pass of merge_models_with_comments: the existing entries, rendered
ExistingLines(tier_entries) ==
    [i \in 1..Len(tier_entries) |->
        IF tier_entries[i].c THEN CommentedLine(tier_entries[i].m)
        ELSE ActiveLine(tier_entries[i].m)] \o <<>>

ExistingIds(tier_entries) ==
    {normalize_model_id(tier_entries[i].m) : i \in 1..Len(tier_entries)}

\* a second pass that does not record the identities it appends
RECURSIVE AppendNewUntracked(_, _, _)
AppendNewUntracked(new_models, added_models, acc) ==
    IF new_models = <<>> THEN acc
    ELSE IF normalize_model_id(Head(new_models)) \notin added_models
    THEN AppendNewUntracked(Tail(new_models), added_models, Append(acc, Head(new_models)))
    ELSE AppendNewUntracked(Tail(new_models), added_models, acc)

\* second pass: the new models whose identity is not in added_models yet
RECURSIVE AppendNew(_, _, _)
AppendNew(new_models, added_models, acc) ==
    IF new_models = <<>> THEN acc
    ELSE IF normalize_model_id(Head(new_models)) \notin added_models
    THEN AppendNew(Tail(new_models),
                   added_models \cup {normalize_model_id(Head(new_models))},
                   Append(acc, Head(new_models)))
    ELSE AppendNew(Tail(new_models), added_models, acc)

\* the new models merge_models_with_comments appends, in order
Appended(tier_entries, new_models) ==
    AppendNew(new_models, ExistingIds(tier_entries), <<>>)

ActiveLines(models) == [i \in 1..Len(models) |-> ActiveLine(models[i])] \o <<>>

merge_models_with_comments(tier_entries, new_models) ==
    ExistingLines(tier_entries) \o ActiveLines(Appended(tier_entries, new_models))

-----------------------------------------------------------------------------
(* Tiered text parser *)

\* re.match(rf"^{re.escape(tier_name)}:\s*$", stripped)
IsTierStart(stripped, tier_name) == stripped = <<tier_name, ":">>

\* re.search(r'#\s*(-\s*)?(.+)', stripped), group(2).strip(); <<>>: no match.
\* The leftmost '#' decides: what follows it is empty only at the end of the
\* stripped line, where no later '#' can match either.
CommentText(stripped) ==
    LET p == FirstTok(stripped, "#", 1)
        r1 == LStrip(SubSeq(stripped, p + 1, Len(stripped)))
        r2 == IF r1 # <<>> /\ r1[1] = "-" THEN LStrip(Tail(r1)) ELSE <<>>
    IN  IF r1 = <<>> THEN <<>> ELSE IF r2 # <<>> THEN Strip(r2) ELSE Strip(r1)

\* the entries a line inside a tier contributes (lines 318-329)
LineEntries(stripped) ==
    IF stripped = <<>> THEN <<>>
    ELSE IF StartsWith(stripped, <<"#">>) \/ StartsWith(stripped, <<"-", SP, "#">>)
    THEN IF CommentText(stripped) # <<>> THEN <<Entry(CommentText(stripped), TRUE)>> ELSE <<>>
    ELSE IF StartsWith(stripped, <<"-", SP>>)
    THEN <<Entry(Strip(SubSeq(stripped, 3, Len(stripped))), FALSE)>>
    ELSE <<>>

\* line 310: the line may leave the tier
AtTopLevelKey(line) ==
    Strip(line) # <<>> /\ Indent(line) <= 0 /\ HasTok(Strip(line), ":")

\* lines 312-315, given the keys of models_section: the scan stops here
LeavesTier(stripped, tier_name, keys) ==
    \/ ~ \E t \in keys : WordStartsWith(stripped[1], t)
    \/ SplitKey(stripped) # <<tier_name>>

\* the loop of lines 292-329 for one tier, from line i (0-based) on
RECURSIVE ScanTier(_, _, _, _, _, _)
ScanTier(lines, ms, tier_name, i, in_tier, acc) ==
    IF i >= Len(lines) THEN [raised |-> FALSE, entries |-> acc]
    ELSE LET line == At(lines, i)
             stripped == Strip(line)
         IN  IF IsTierStart(stripped, tier_name)
             THEN ScanTier(lines, ms, tier_name, i + 1, TRUE, acc)
             ELSE IF ~in_tier THEN ScanTier(lines, ms, tier_name, i + 1, FALSE, acc)
             ELSE IF AtTopLevelKey(line)
             THEN IF ~ms.ok THEN [raised |-> TRUE, entries |-> acc]
                  ELSE IF LeavesTier(stripped, tier_name, ms.keys)
                  THEN [raised |-> FALSE, entries |-> acc]
                  ELSE ScanTier(lines, ms, tier_name, i + 1, TRUE,
                                acc \o LineEntries(stripped))
             ELSE ScanTier(lines, ms, tier_name, i + 1, TRUE, acc \o LineEntries(stripped))

\* the lines (0-based) whose entries that loop appends to the list of
\* tier_name
RECURSIVE ScanLines(_, _, _, _, _, _)
ScanLines(lines, ms, tier_name, i, in_tier, acc) ==
    IF i >= Len(lines) THEN acc
    ELSE IF IsTierStart(Strip(At(lines, i)), tier_name)
    THEN ScanLines(lines, ms, tier_name, i + 1, TRUE, acc)
    ELSE IF ~in_tier THEN ScanLines(lines, ms, tier_name, i + 1, FALSE, acc)
    ELSE IF /\ AtTopLevelKey(At(lines, i))
            /\ (~ms.ok \/ LeavesTier(Strip(At(lines, i)), tier_name, ms.keys))
    THEN acc
    ELSE ScanLines(lines, ms, tier_name, i + 1, TRUE,
                   IF LineEntries(Strip(At(lines, i))) # <<>> THEN acc \cup {i} ELSE acc)

\* parse_yaml_with_comments on an existing file: raised, or the parsed
\* config and the entries of each tier
\* lines 289-329: the scan of every tier, given models_section
ScanTiers(lines, ms) ==
    LET Scan(t) == ScanTier(lines, ms, t, 0, FALSE, <<>>) IN ByTier(Scan)

Parsed(config, scan) ==
    LET Entries(t) == scan[t].entries IN
    [raised |-> \E t \in TierNames : scan[t].raised,
     config |-> config,
     tier_comments |-> ByTier(Entries)]

\* lines 276-329, given what yaml.safe_load returned
ParseLoaded(lines, config) ==
    IF config.raised \/ config.root = "seq"
    THEN [raised |-> TRUE, config |-> config, tier_comments |-> EmptyTiers]
    ELSE Parsed(config, ScanTiers(lines, models_section(config)))

parse_yaml_with_comments(lines) == ParseLoaded(lines, safe_load(lines))

-----------------------------------------------------------------------------
(* Config rewriter *)

\* lines 437-441: the tier whose start the stripped line is, or NoTier
tier_match(stripped) ==
    IF \E t \in TierNames : IsTierStart(stripped, t)
    THEN CHOOSE t \in TierNames : IsTierStart(stripped, t)
    ELSE NoTier

\* lines 451-469: the loop over j that finds tier_end
RECURSIVE FindTierEnd(_, _, _)
FindTierEnd(lines, j, tier_end) ==
    IF j >= Len(lines) THEN tier_end
    ELSE LET next_line == At(lines, j)
             next_stripped == Strip(next_line)
         IN  IF next_stripped = <<>> THEN FindTierEnd(lines, j + 1, j)
             ELSE IF /\ Indent(next_line) <= 0
                     /\ HasTok(next_stripped, ":")
                     /\ SplitKey(next_stripped) \notin {<<t>> : t \in TierNames}
             THEN j
             ELSE FindTierEnd(lines, j + 1, j + 1)

\* tier_end for the tier that starts at line i (0-based)
TierEnd(lines, i) == FindTierEnd(lines, i + 1, i + 1)

\* lines 432-486: the loop over i that builds result_lines
RECURSIVE Rewrite(_, _, _, _, _)
Rewrite(lines, tier_comments, new_tiers, i, result_lines) ==
    IF i >= Len(lines) THEN result_lines
    ELSE LET line == At(lines, i)
             current_tier == tier_match(Strip(line))
         IN  IF current_tier # NoTier
             THEN Rewrite(lines, tier_comments, new_tiers, TierEnd(lines, i),
                          Append(result_lines, line)
                            \o merge_models_with_comments(tier_comments[current_tier],
                                                          new_tiers[current_tier]))
             ELSE Rewrite(lines, tier_comments, new_tiers, i + 1, Append(result_lines, line))

\* the lines (0-based) that loop leaves out of result_lines, by the tier
\* whose merged entries it writes in their place (line 481: i = tier_end)
RECURSIVE ReplacedLines(_, _, _)
ReplacedLines(lines, i, acc) ==
    IF i >= Len(lines) THEN acc
    ELSE IF tier_match(Strip(At(lines, i))) # NoTier
    THEN ReplacedLines(lines, TierEnd(lines, i),
                       [acc EXCEPT ![tier_match(Strip(At(lines, i)))] =
                                       @ \cup (i + 1)..(TierEnd(lines, i) - 1)])
    ELSE ReplacedLines(lines, i + 1, acc)

\* the content save_config_with_comments writes to the file
save_config_with_comments(lines, tier_comments, new_tiers) ==
    Rewrite(lines, tier_comments, new_tiers, 0, <<>>)

-----------------------------------------------------------------------------
(* Catalog: filter, score, rank, classify, distribute *)

\* A catalog entry: id (tokens), pricing.prompt ("0", a non-zero price "1",
\* text that is no number "bad", or "none"), context_length, the number of
\* supported_parameters, whether it has a (non-zero) created field, and its
\* age in days, (time.time() - created) / 86400.
Model(id, prompt, ctx, caps, created, days) ==
    [id |-> id, prompt |-> prompt, ctx |-> ctx, caps |-> caps, created |-> created,
     days |-> days]

\* ":free" in model_id
HasFreeMarker(id) == \E i \in 1..(Len(id) - 1) : id[i] = ":" /\ id[i + 1] = "free"

\* lines 103-115: whether filter_free_models keeps the model
IsFree(m) == m.prompt = "0" \/ HasFreeMarker(m.id)

RECURSIVE SelectSeq2(_, _)
SelectSeq2(s, keep) ==
    IF s = <<>> THEN <<>>
    ELSE IF keep[1] THEN <<Head(s)>> \o SelectSeq2(Tail(s), Tail(keep))
    ELSE SelectSeq2(Tail(s), Tail(keep))

\* `model not in free_models` (line 114) compares with the models kept so far
filter_free_models(models) ==
    SelectSeq2(models,
        [i \in 1..Len(models) |->
            \/ models[i].prompt = "0"
            \/ /\ HasFreeMarker(models[i].id)
               /\ ~ \E j \in 1..(i - 1) : IsFree(models[j]) /\ models[j] = models[i]])

\* Scores are exact multiples of 1/ScoreUnit: the four weighted terms of
\* calculate_model_score have the common denominator 2^5 * 3 * 5^7 * 73.
ScoreUnit == 547500000
ContextCap == 1000000
CapabilityCap == 10
YearDays == 365

Min(a, b) == IF a < b THEN a ELSE b
Max(a, b) == IF a > b THEN a ELSE b

TRUSTED_PROVIDERS ==
    << <<"google">>, <<"meta", "-", "llama">>, <<"mistralai">>, <<"deepseek">>,
       <<"nvidia">>, <<"qwen">>, <<"microsoft">>, <<"allenai">>, <<"arcee", "-", "ai">>,
       <<"liquid">>, <<"stepfun">>, <<"upstage">> >>

\* model_id.split("/")[0] if "/" in model_id else ""
Provider(id) ==
    LET p == FirstTok(id, "/", 1) IN IF p = 0 THEN <<>> ELSE SubSeq(id, 1, p - 1)

\* TRUSTED_PROVIDERS.index(provider), or -1
TrustIndex(provider) ==
    IF \E i \in 1..Len(TRUSTED_PROVIDERS) : TRUSTED_PROVIDERS[i] = provider
    THEN (CHOOSE i \in 1..Len(TRUSTED_PROVIDERS) : TRUSTED_PROVIDERS[i] = provider) - 1
    ELSE -1

\* calculate_model_score, in units of 1/ScoreUnit
calculate_model_score(m) ==
    LET context == Min(m.ctx, ContextCap) * (((ScoreUnit \div 10) * 4) \div ContextCap)
        capability == Min(m.caps, CapabilityCap) * (((ScoreUnit \div 10) * 3) \div CapabilityCap)
        recency == IF ~m.created THEN 0
                   ELSE Max(0, YearDays - m.days) * (((ScoreUnit \div 10) * 2) \div YearDays)
        trust == IF TrustIndex(Provider(m.id)) < 0 THEN 0
                 ELSE (Len(TRUSTED_PROVIDERS) - TrustIndex(Provider(m.id)))
                        * ((ScoreUnit \div 10) \div Len(TRUSTED_PROVIDERS))
    IN  context + capability + recency + trust

Scored(m) == [model |-> m, score |-> calculate_model_score(m)]

\* an insertion that puts an element before the elements of equal key
RECURSIVE InsertDescBeforeEqual(_, _)
InsertDescBeforeEqual(sorted, x) ==
    IF sorted = <<>> THEN <<x>>
    ELSE IF Head(sorted).score > x.score
    THEN <<Head(sorted)>> \o InsertDescBeforeEqual(Tail(sorted), x)
    ELSE <<x>> \o sorted

\* list.sort(key, reverse=True) is stable: an element goes after every
\* element whose key is not smaller
RECURSIVE InsertDesc(_, _)
InsertDesc(sorted, x) ==
    IF sorted = <<>> THEN <<x>>
    ELSE IF Head(sorted).score >= x.score THEN <<Head(sorted)>> \o InsertDesc(Tail(sorted), x)
    ELSE <<x>> \o sorted

RECURSIVE SortDesc(_, _)
SortDesc(todo, sorted) ==
    IF todo = <<>> THEN sorted ELSE SortDesc(Tail(todo), InsertDesc(sorted, Head(todo)))

rank_free_models(models) ==
    SortDesc([i \in 1..Len(models) |-> Scored(models[i])] \o <<>>, <<>>)

\* format_model_for_router
format_model_for_router(model_id) ==
    LET base_id == IF ~HasFreeMarker(model_id) THEN model_id \o <<":", "free">> ELSE model_id
        cut == IF StartsWith(base_id, <<"openrouter", "/">>)
               THEN SubSeq(base_id, 3, Len(base_id)) ELSE base_id
    IN  <<"openrouter", ":">> \o cut

\* the keywords of categorize_model that occur in a word of the vocabulary
WordKeywords(w) ==
    CASE w \in {"opus", "o1", "o3", "thinking", "coder", "65b", "70b", "405b", "large",
                "1b", "1.5b", "2b", "3b", "nano", "7b", "8b", "9b", "mini", "small",
                "gemma", "14b", "27b", "32b", "flash", "mistral"} -> {w}
      [] OTHER -> {}

\* a short name taken from the identifier as it is spelled
ShortNameCaseKept(id) ==
    LET slashes == {i \in 1..Len(id) : id[i] = "/"}
        last == IF slashes = {} THEN 0 ELSE CHOOSE i \in slashes : \A j \in slashes : j <= i
    IN  SubSeq(id, last + 1, Len(id))

\* model_id.split("/")[-1] if "/" in model_id else model_id, of the lowered id
ShortName(id) ==
    LET l == Lower(id)
        slashes == {i \in 1..Len(l) : l[i] = "/"}
        last == IF slashes = {} THEN 0 ELSE CHOOSE i \in slashes : \A j \in slashes : j <= i
    IN  SubSeq(l, last + 1, Len(l))

\* the token sequence kw occurs in name
HasSeq(name, kw) ==
    \E i \in 1..(Len(name) - Len(kw) + 1) : SubSeq(name, i, i + Len(kw) - 1) = kw

\* any(x == model_name for x in keywords)
AnyKeywordEqual(name, words, seqs) ==
    name \in {<<w>> : w \in words} \cup seqs

\* any(x in model_name for x in keywords): one-word keywords inside a word,
\* keywords with '-' as a run of tokens
AnyKeyword(name, words, seqs) ==
    \/ \E i \in 1..Len(name) : WordKeywords(name[i]) \cap words # {}
    \/ \E kw \in seqs : HasSeq(name, kw)

Threshold(tenths) == (ScoreUnit \div 10) * tenths

categorize_model(sm) ==
    LET model_name == ShortName(sm.model.id)
        context_length == sm.model.ctx
        score == sm.score
    IN  IF /\ AnyKeyword(model_name, {"opus", "o1", "o3", "thinking"},
                         {<<"deepseek", "-", "r1">>, <<"qwen3", "-", "235b">>})
           /\ (score > Threshold(5) \/ context_length > 100000)
        THEN "super_hard"
        ELSE IF /\ AnyKeyword(model_name, {"coder", "65b", "70b", "405b", "large"},
                              {<<"gemini", "-", "2.5">>})
                /\ score > Threshold(4)
        THEN "hard"
        ELSE IF AnyKeyword(model_name, {"1b", "1.5b", "2b", "3b", "nano"},
                           {<<"gemma", "-", "2b">>})
        THEN "super_easy"
        ELSE IF AnyKeyword(model_name, {"7b", "8b", "9b", "nano", "mini", "small", "gemma"}, {})
        THEN "easy"
        ELSE IF AnyKeyword(model_name, {"14b", "27b", "32b", "flash", "mistral"},
                           {<<"llama", "-", "3.3">>})
        THEN "medium"
        ELSE IF context_length >= 128000 \/ score > Threshold(6) THEN "hard"
        ELSE IF score > Threshold(7) THEN "hard"
        ELSE IF score > Threshold(5) THEN "medium"
        ELSE IF score > Threshold(3) THEN "easy"
        ELSE "super_easy"

free_router == <<"openrouter", ":", "openrouter", "/", "free", ":", "free">>

InSeq(s, x) == \E i \in 1..Len(s) : s[i] = x

\* lines 246-250: the ranked models, each appended to its tier unless the
\* formatted id is in the tier already
AddModel(tiers, tier, formatted) ==
    IF InSeq(tiers[tier], formatted) THEN tiers
    ELSE [tiers EXCEPT ![tier] = Append(@, formatted)]

RECURSIVE Distribute(_, _)
Distribute(ranked_models, tiers) ==
    IF ranked_models = <<>> THEN tiers
    ELSE Distribute(Tail(ranked_models),
                    AddModel(tiers, categorize_model(Head(ranked_models)),
                             format_model_for_router(Head(ranked_models).model.id)))

\* distribute_to_tiers: the tier_mapping of the config is read and not used
\* lines 253-256: the fallback router, in every tier that lacks it
AddFallback(tiers) ==
    LET WithFallback(t) ==
            IF InSeq(tiers[t], free_router) THEN tiers[t] ELSE Append(tiers[t], free_router)
    IN  ByTier(WithFallback)

distribute_to_tiers(ranked_models) == AddFallback(Distribute(ranked_models, EmptyTiers))

-----------------------------------------------------------------------------
(* yaml.dump(default_flow_style=False, sort_keys=False) and the freeride   *)
(* metadata                                                                *)

Spaces(n) == [i \in 1..n |-> SP] \o <<>>

\* a mapping key at its level's indentation, a list item at the indentation
\* of the key that holds the list; None is written null
DumpLine(nodes, i) ==
    LET n == nodes[i] IN
    IF n.t = "item"
    THEN Spaces(2 * (n.lvl - 1)) \o <<"-", SP>> \o (IF n.v = <<>> THEN <<"null">> ELSE n.v)
    ELSE Spaces(2 * n.lvl) \o <<n.k, ":">> \o
         (IF n.v # <<>> THEN <<SP>> \o n.v
          ELSE IF i < Len(nodes) /\ nodes[i + 1].lvl = n.lvl + 1 THEN <<>>
          ELSE <<SP, "null">>)

\* the text yaml.dump writes for a mapping with at least one key
dump(nodes) == [i \in 1..Len(nodes) |-> DumpLine(nodes, i)] \o << <<>> >>

OPENROUTER_API_URL ==
    <<"https", ":", "/", "/", "openrouter.ai", "/", "api", "/", "v1", "/", "models">>

\* datetime.now().isoformat() of the n-th run, len(free_models) as text
StampTok(n) == <<"'t1'", "'t2'", "'t3'", "'t4'", "'t5'">>[n]
CountTok(n) == <<"0", "1", "2", "3", "4", "5">>[n + 1]

\* d[key] = value, for the mapping that is the value of key node i
SetChild(nodes, i, key, value) ==
    LET end == SubtreeEnd(nodes, nodes[i].lvl, i + 1)
        j == FindKey(nodes, i + 1, end - 1, nodes[i].lvl + 1, key)
        node == YNode(nodes[i].lvl + 1, "key", key, value)
    IN  IF j = 0
        THEN SubSeq(nodes, 1, end - 1) \o <<node>> \o SubSeq(nodes, end, Len(nodes))
        ELSE SubSeq(nodes, 1, j - 1) \o <<node>>
               \o SubSeq(nodes, SubtreeEnd(nodes, nodes[j].lvl, j + 1), Len(nodes))

\* lines 582-591 on the loaded mapping: raised when the value of freeride
\* has no update() (None, a string, a list)
UpdateFreeride(nodes, stamp, total) ==
    LET i0 == FindKey(nodes, 1, Len(nodes), 0, "freeride")
        withKey == IF i0 = 0 THEN Append(nodes, YNode(0, "key", "freeride", <<>>)) ELSE nodes
        i == IF i0 = 0 THEN Len(withKey) ELSE i0
        n1 == SetChild(withKey, i, "enabled", <<"true">>)
        n2 == SetChild(n1, i, "last_update", <<stamp>>)
        n3 == SetChild(n2, i, "total_free_models", <<total>>)
        n4 == SetChild(n3, i, "api_url", OPENROUTER_API_URL)
    IN  IF i0 # 0 /\ ValType(nodes, i0) # "dict"
        THEN [raised |-> TRUE, nodes |-> nodes]
        ELSE [raised |-> FALSE, nodes |-> n4]

-----------------------------------------------------------------------------
(* The update handler *)

\* fetch_all_models, given the response to the catalog request: the list of
\* the "data" member, an empty list when the request failed, or an exception
\* that leaves the function.  raise_for_status() raises an HTTPError on a
\* status of 400 and above, which is a RequestException and is caught.
\* json() on text that is no JSON raises requests.JSONDecodeError, which is a
\* RequestException from requests 2.27 on and a plain ValueError before
\* (legacy), and a ValueError is not caught.  A JSON document that is no
\* object has no get(): the AttributeError is not caught.
fetch_all_models(response) ==
    IF response.status >= 400 THEN [raised |-> FALSE, error |-> "", models |-> <<>>]
    ELSE IF response.body = "invalid"
    THEN [raised |-> response.legacy, error |-> "fetch_all_models: JSONDecodeError",
          models |-> <<>>]
    ELSE IF response.body # "object"
    THEN [raised |-> TRUE, error |-> "fetch_all_models: AttributeError", models |-> <<>>]
    ELSE [raised |-> FALSE, error |-> "", models |-> response.data]

\* get_api_key: "env", "config", "none", or "raised" when providers or
\* providers.openrouter is no mapping (AttributeError on .get)
\* config.get("providers", {}).get("openrouter", {}).get("api_key")
ApiKeyAt(nodes, k) == IF k = 0 \/ ValType(nodes, k) = "none" THEN "none" ELSE "config"

KeyIn(nodes, o) ==
    IF o = 0 THEN "none"
    ELSE IF ValType(nodes, o) # "dict" THEN "raised"
    ELSE ApiKeyAt(nodes, FindKey(nodes, o + 1, SubtreeEnd(nodes, 1, o + 1) - 1, 2, "api_key"))

ProviderIn(nodes, p) ==
    IF p = 0 THEN "none"
    ELSE IF ValType(nodes, p) # "dict" THEN "raised"
    ELSE KeyIn(nodes, FindKey(nodes, p + 1, SubtreeEnd(nodes, 0, p + 1) - 1, 1, "openrouter"))

get_api_key(env, config) ==
    IF env THEN "env"
    ELSE ProviderIn(config.nodes, FindKey(config.nodes, 1, Len(config.nodes), 0, "providers"))

RECURSIVE SumTiers(_, _)
SumTiers(f, i) == IF i > Len(Tiers) THEN 0 ELSE f[Tiers[i]] + SumTiers(f, i + 1)

Count(s, P(_)) == Cardinality({i \in 1..Len(s) : P(s[i])})

\* sum(1 for m in new_models if has_duplicate(tier_entries, m) == dup)
CountNew(tier_entries, new_models, dup) ==
    Cardinality({i \in 1..Len(new_models) : has_duplicate(tier_entries, new_models[i]) = dup})

\* lines 551-568
Stats(tier_comments, new_tiers) ==
    LET Kept(e) == e.c \/ ~StartsWith(e.m, <<"openrouter", ":">>)
        Added(t) == CountNew(tier_comments[t], new_tiers[t], FALSE)
        Preserved(t) == Count(tier_comments[t], Kept)
        Skipped(t) == CountNew(tier_comments[t], new_tiers[t], TRUE)
    IN
    [added |-> SumTiers(ByTier(Added), 1),
     preserved |-> SumTiers(ByTier(Preserved), 1),
     skipped_duplicates |-> SumTiers(ByTier(Skipped), 1),
     tiers_updated |-> Len(Tiers)]

NoStats == [added |-> 0, preserved |-> 0, skipped_duplicates |-> 0, tiers_updated |-> 0]

\* a return before anything is written (lines 512-540); wrote: whether the
\* handler opened the file for writing
Failure(error, lines) ==
    [success |-> FALSE, raised |-> FALSE, error |-> error, stats |-> NoStats,
     file |-> lines, trace |-> <<>>, wrote |-> FALSE]

\* lines 597-600: the dumped file is parsed and saved again
SaveAgain(dumped, parsed, new_tiers) ==
    IF parsed.raised
    THEN [file |-> dumped, trace |-> <<"rewrite", "dump">>]
    ELSE [file |-> save_config_with_comments(dumped, parsed.tier_comments, new_tiers),
          trace |-> <<"rewrite", "dump", "rewrite">>]

\* lines 594-600: the updated mapping is dumped over the file
DumpConfig(dumped, new_tiers) ==
    SaveAgain(dumped, parse_yaml_with_comments(dumped), new_tiers)

\* lines 582-600, given the mapping with the freeride keys set
MetadataSet(saved, updated, new_tiers) ==
    IF updated.raised THEN [file |-> saved, trace |-> <<"rewrite">>]
    ELSE DumpConfig(dump(updated.nodes), new_tiers)

\* lines 578-600, given what yaml.safe_load returned for the saved file
MetadataLoaded(saved, loaded, new_tiers, stamp, total) ==
    IF loaded.raised \/ loaded.root = "seq" THEN [file |-> saved, trace |-> <<"rewrite">>]
    ELSE MetadataSet(saved, UpdateFreeride(loaded.nodes, stamp, total), new_tiers)

\* lines 576-603: the freeride metadata, written after the tiers were saved.
\* Any exception in it is caught and printed as a warning.
WriteMetadata(saved, new_tiers, stamp, total) ==
    MetadataLoaded(saved, safe_load(saved), new_tiers, stamp, total)

Success(stats, meta) ==
    [success |-> TRUE, raised |-> FALSE, error |-> "", stats |-> stats,
     file |-> meta.file, trace |-> meta.trace, wrote |-> TRUE]

\* lines 543-610: the tiers are saved, then the metadata
SaveTiers(lines, tier_comments, new_tiers, stamp, total) ==
    Success(Stats(tier_comments, new_tiers),
            WriteMetadata(save_config_with_comments(lines, tier_comments, new_tiers),
                          new_tiers, stamp, total))

\* lines 534-610, given the free models
WithFreeModels(lines, tier_comments, free_models, stamp) ==
    IF free_models = <<>> THEN Failure("No free models found on OpenRouter", lines)
    ELSE SaveTiers(lines, tier_comments, distribute_to_tiers(rank_free_models(free_models)),
                   stamp, CountTok(Len(free_models)))

\* lines 521-610, given what get_api_key returned
WithApiKey(lines, tier_comments, api_key, fetched, stamp) ==
    IF api_key = "raised" THEN [Failure("AttributeError", lines) EXCEPT !.raised = TRUE]
    ELSE IF api_key = "none" THEN Failure("No OpenRouter API key found", lines)
    ELSE IF fetched.raised THEN [Failure(fetched.error, lines) EXCEPT !.raised = TRUE]
    ELSE IF fetched.models = <<>>
    THEN Failure("Failed to fetch models from OpenRouter", lines)
    ELSE WithFreeModels(lines, tier_comments, filter_free_models(fetched.models), stamp)

\* lines 512-610, given what parse_yaml_with_comments returned
WithParsed(lines, parsed, env, fetched, stamp) ==
    IF parsed.raised THEN Failure("Error reading config", lines)
    ELSE WithApiKey(lines, parsed.tier_comments, get_api_key(env, parsed.config),
                    fetched, stamp)

\* update_config_with_freeride(config_path), given whether the file exists,
\* its content, the environment's key, the outcome of fetch_all_models and
\* the clock.  Errors of the file system while the file is written are not
\* modelled.
update_config_with_freeride(cfgExists, lines, env, fetched, stamp) ==
    IF ~cfgExists THEN Failure("Config file not found", lines)
    ELSE WithParsed(lines, parse_yaml_with_comments(lines), env, fetched, stamp)

\* a CLI that does not report the failure to the shell
ExitCodeOfIgnored(res) == 0

\* the __main__ block with --update: sys.exit(1) on a failure result, and an
\* uncaught exception ends the interpreter with status 1 as well
ExitCodeOf(res) == IF res.success THEN 0 ELSE 1

-----------------------------------------------------------------------------
(* Configuration files and catalogs of the model *)

MaxBody == 1    \* entries in a tier section of an initial file
MaxRuns == 2    \* updates in a row

mini_free == <<"openrouter", ":", "mini", ":", "free">>
manual == <<"anthropic", ":", "c1">>

BodyPool ==
    {Entry(mini_free, FALSE), Entry(mini_free, TRUE), Entry(manual, FALSE),
     Entry(free_router, TRUE)}

RECURSIVE SeqsUpTo(_, _)
SeqsUpTo(S, n) ==
    IF n = 0 THEN {<<>>}
    ELSE LET shorter == SeqsUpTo(S, n - 1) IN
         shorter \cup {Append(q, x) : q \in shorter, x \in S}

EntryLine(indent, e) ==
    Spaces(indent) \o (IF e.c THEN <<"#", SP, "-", SP>> ELSE <<"-", SP>>) \o e.m

\* the entries of BodyPool as lines at an indentation
EntryLines(indent) == {EntryLine(indent, e) : e \in BodyPool}

\* the sections a tier can have: none, or its header at indentation h and
\* up to n lines of pool
Sections(t, h, pool, n) ==
    {<<>>} \cup {<<Spaces(h) \o <<t, ":">>>> \o body : body \in SeqsUpTo(pool, n)}

Heads == {<<>>, << <<"#", SP, "note">> >>, << <<"@">> >>}

ProviderBlocks ==
    {<<>>,
     << <<"providers", ":">> >>,
     << <<"providers", ":">>, <<SP, SP, "openrouter", ":">>,
        <<SP, SP, SP, SP, "api_key", ":", SP, "k">> >>}

\* the tiers easy and hard nested under models: (entries at indentation 4)
NestedFiles(heads, pool, n, tails) ==
    {head \o <<<<"models", ":">>>> \o easy \o hard \o tail \o << <<>> >> :
        head \in heads, easy \in Sections("easy", 2, pool, n),
        hard \in Sections("hard", 2, pool, n), tail \in tails}

\* the tier keys at indentation 0 (entries at indentation 2)
FlatFiles(heads, pool, n, tails) ==
    {head \o easy \o hard \o tail \o << <<>> >> :
        head \in heads, easy \in Sections("easy", 0, pool, n),
        hard \in Sections("hard", 0, pool, n), tail \in tails}

ConfigFiles ==
    NestedFiles(Heads, EntryLines(4), MaxBody, ProviderBlocks)
        \cup FlatFiles(Heads, EntryLines(2), MaxBody, ProviderBlocks)

mMini == Model(<<"mini">>, "0", 8000, 3, TRUE, 30)
mMINI == Model(<<"MINI", ":", "free">>, "1", 8000, 3, TRUE, 30)
mBig == Model(<<"google", "/", "big">>, "0", 200000, 5, FALSE, 0)
mPaid == Model(<<"paid">>, "1", 8000, 3, TRUE, 30)

\* the "data" arrays of the catalog
FetchResults == {<<>>, <<mPaid>>, <<mMini>>, <<mMini, mMINI>>, <<mBig, mPaid, mMINI>>}

\* responses to the catalog request: the status, whether the body is a JSON
\* object, another JSON document ("array") or no JSON ("invalid"), the data
\* member of an object, and the requests library being older than 2.27
Responses ==
    {[status |-> 200, body |-> "object", data |-> d, legacy |-> FALSE] :
        d \in FetchResults}
    \cup {[status |-> 500, body |-> "object", data |-> <<mMini>>, legacy |-> FALSE],
          [status |-> 404, body |-> "invalid", data |-> <<>>, legacy |-> FALSE],
          [status |-> 200, body |-> "array", data |-> <<>>, legacy |-> FALSE]}
    \cup {[status |-> 200, body |-> "invalid", data |-> <<>>, legacy |-> l] :
          l \in BOOLEAN}

NoResult == [success |-> FALSE, raised |-> FALSE, error |-> "", stats |-> NoStats]

-----------------------------------------------------------------------------
(* The update tool: freeride.py --update, run repeatedly on one file *)

Init ==
    /\ exists \in BOOLEAN
    /\ file \in (IF exists THEN ConfigFiles ELSE {<< <<>> >>})
    /\ envKey \in BOOLEAN
    /\ before = file
    /\ result = NoResult
    /\ exitCode = 0
    /\ trace = <<>>
    /\ runs = 0
    /\ cands = <<>>
    /\ call = <<>>
    /\ ret = <<>>
    /\ NoTests

\* the results of a handler that returned before the catalog request
Unasked ==
    {"Config file not found", "Error reading config", "No OpenRouter API key found",
     "AttributeError"}

\* the handler returned res; call records the response the catalog request
\* of the run got, if the run made the request
Returned(res, response) ==
    /\ call' = IF res.error \in Unasked THEN <<"update">> ELSE <<"update", response>>
    /\ file' = res.file
    /\ result' = [success |-> res.success, raised |-> res.raised,
                  error |-> res.error, stats |-> res.stats]
    /\ trace' = res.trace
    /\ exitCode' = ExitCodeOf(res)
    /\ exists' = (exists \/ res.wrote)

\* one run of the tool
Update(response) ==
    /\ runs < MaxRuns
    /\ Returned(update_config_with_freeride(exists, file, envKey,
                                            fetch_all_models(response),
                                            StampTok(runs + 1)),
                response)
    /\ before' = file
    /\ runs' = runs + 1
    /\ UNCHANGED <<envKey, cands, ret>>
    /\ UNCHANGED testVars

Next == \E response \in Responses : Update(response)

Spec == Init /\ [][Next]_vars

\* every file of the model is in the subset safe_load is modelled on
FamilyInv == exists => ~safe_load(file).outside

-----------------------------------------------------------------------------
(* What a reader of the file sees: the tier a line belongs to.  A tier's   *)
(* section runs from its header to the next tier header or the next other  *)
(* key at indentation 0.                                                   *)

IsOtherKey(line) ==
    Indent(line) = 0 /\ YKind(line) = "key" /\ tier_match(Strip(line)) = NoTier

Label(tier, header) == [tier |-> tier, header |-> header]

\* the labels of the lines k.., when the line before k is in section cur
RECURSIVE Labels(_, _, _)
Labels(lines, k, cur) ==
    IF k > Len(lines) THEN <<>>
    ELSE IF tier_match(Strip(lines[k])) # NoTier
    THEN <<Label(tier_match(Strip(lines[k])), TRUE)>>
            \o Labels(lines, k + 1, tier_match(Strip(lines[k])))
    ELSE IF IsOtherKey(lines[k]) THEN <<Label(NoTier, FALSE)>> \o Labels(lines, k + 1, NoTier)
    ELSE <<Label(cur, FALSE)>> \o Labels(lines, k + 1, cur)

\* the lines of the sections of tier t, headers left out
RECURSIVE SectionLines(_, _, _, _)
SectionLines(lines, labels, t, k) ==
    IF k > Len(lines) THEN <<>>
    ELSE IF labels[k] = Label(t, FALSE)
    THEN <<lines[k]>> \o SectionLines(lines, labels, t, k + 1)
    ELSE SectionLines(lines, labels, t, k + 1)

TierLines(lines, t) == SectionLines(lines, Labels(lines, 1, NoTier), t, 1)

HasHeader(lines, t) == \E k \in 1..Len(lines) : IsTierStart(Strip(lines[k]), t)

IsCommentLine(line) == StartsWith(Strip(line), <<"#">>)

RECURSIVE EntriesOf(_)
EntriesOf(section) ==
    IF section = <<>> THEN <<>>
    ELSE LineEntries(Strip(Head(section))) \o EntriesOf(Tail(section))

\* the entries a reader finds listed under tier t
TierEntries(lines, t) == EntriesOf(TierLines(lines, t))

\* the comment lines of a section, in order
RECURSIVE CommentLines(_)
CommentLines(section) ==
    IF section = <<>> THEN <<>>
    ELSE IF IsCommentLine(Head(section)) THEN <<Head(section)>> \o CommentLines(Tail(section))
    ELSE CommentLines(Tail(section))

\* the tier headers and the lines outside the tier sections, in order
RECURSIVE NonSectionLines(_, _, _)
NonSectionLines(lines, labels, k) ==
    IF k > Len(lines) THEN <<>>
    ELSE IF labels[k].header \/ labels[k].tier = NoTier
    THEN <<lines[k]>> \o NonSectionLines(lines, labels, k + 1)
    ELSE NonSectionLines(lines, labels, k + 1)

NonTierLines(lines) == NonSectionLines(lines, Labels(lines, 1, NoTier), 1)

\* a occurs in b as a subsequence
RECURSIVE IsSubseq(_, _)
IsSubseq(a, b) ==
    IF a = <<>> THEN TRUE
    ELSE IF b = <<>> THEN FALSE
    ELSE IF Head(a) = Head(b) THEN IsSubseq(Tail(a), Tail(b))
    ELSE IsSubseq(a, Tail(b))

Updated == runs >= 1 /\ result.success

\* a model opted out of tier t in the file: listed commented out, and not
\* listed active under any spelling of its identity
OptedOut(lines, t) ==
    {e \in {TierEntries(lines, t)[i] : i \in 1..Len(TierEntries(lines, t))} :
        /\ e.c
        /\ ~ \E i \in 1..Len(TierEntries(lines, t)) :
                /\ ~TierEntries(lines, t)[i].c
                /\ normalize_model_id(TierEntries(lines, t)[i].m) = normalize_model_id(e.m)}

\* C1: a model that is commented out in a tier stays opted out across
\* successful updates: after the update, metadata write included, the tier
\* still lists it commented out and lists no active entry of its identity.
C1_OptOutPersists ==
    Updated =>
        \A t \in TierNames : \A e \in OptedOut(before, t) : e \in OptedOut(file, t)

\* C4: no step of a successful update serialises the parsed YAML structure
\* over the file, and every comment line that was in the file before the
\* update is in the file after it.
C4_NoDump ==
    Updated =>
        /\ ~InSeq(trace, "dump")
        /\ \A k \in 1..Len(before) : IsCommentLine(before[k]) => InSeq(file, before[k])

\* C6: after a successful update each of the five tiers of the written
\* file lists the fallback entry openrouter:openrouter/free:free.
C6_FallbackEverywhere ==
    Updated =>
        \A t \in TierNames :
            \E i \in 1..Len(TierEntries(file, t)) :
                TierEntries(file, t)[i] = Entry(free_router, FALSE)

FailureMessages ==
    {"Config file not found", "Error reading config", "No OpenRouter API key found",
     "Failed to fetch models from OpenRouter", "No free models found on OpenRouter"}

\* C9: when the handler returns a failure result (no file, unparsable
\* file, no API key, failed fetch, no free model) the result carries the
\* message of its cause, the file is what it was before the call and was not
\* written, a missing file is still missing, and the CLI exits with code 1.
C9_FailureLeavesFile ==
    (runs >= 1 /\ ~result.success /\ ~result.raised) =>
        /\ result.error \in FailureMessages
        /\ (result.error = "Config file not found") = ~exists
        /\ file = before
        /\ trace = <<>>
        /\ exitCode = 1

\* the second update of an existing file failed for want of free models,
\* after a first update that rewrote the file
C9_Witness ==
    /\ runs = 2
    /\ exists
    /\ ~result.success
    /\ result.error = "No free models found on OpenRouter"
    /\ InSeq(file, <<"freeride", ":">>)
    /\ exitCode = 1

-----------------------------------------------------------------------------
(* The parse + merge + rewrite pass on its own: parse_yaml_with_comments,  *)
(* then save_config_with_comments with a candidate tier mapping, run again *)
(* on its own output with the same candidates                              *)

MaxPassBody == 1    \* lines in a tier section of an initial file
MaxPasses == 2      \* passes in a row

\* the lines of a tier section: entries, a free comment, an item that is
\* only a comment, a blank line
PassLines(indent) ==
    {EntryLine(indent, Entry(mini_free, FALSE)), EntryLine(indent, Entry(mini_free, TRUE)),
     Spaces(indent) \o <<"#", SP, "note">>, Spaces(indent) \o <<"-", SP, SP, "#", "x">>,
     <<>>}

PassTails == {<<>>, << <<"other", ":", SP, "v">> >>}

PassFiles ==
    NestedFiles({<<>>}, PassLines(4), MaxPassBody, PassTails)
        \cup FlatFiles({<<>>}, PassLines(2), MaxPassBody, PassTails)

\* candidate tier mappings, as distribute_to_tiers returns them
Candidates == {distribute_to_tiers(rank_free_models(c)) : c \in {<<mMini>>, <<mBig>>}}

InitPass ==
    /\ file \in PassFiles
    /\ cands \in Candidates
    /\ exists = TRUE
    /\ envKey = FALSE
    /\ before = file
    /\ result = NoResult
    /\ exitCode = 0
    /\ trace = <<>>
    /\ runs = 0
    /\ call = <<"none">>
    /\ ret = <<>>
    /\ NoTests

\* lines 512-574 without the catalog: the file is parsed and saved
Saved(parsed) ==
    /\ ~parsed.raised
    /\ file' = save_config_with_comments(file, parsed.tier_comments, cands)

Pass ==
    /\ runs < MaxPasses
    /\ Saved(parse_yaml_with_comments(file))
    /\ before' = file
    /\ runs' = runs + 1
    /\ UNCHANGED <<exists, envKey, result, exitCode, trace, cands, call, ret>>
    /\ UNCHANGED testVars

NextPass == Pass

SpecPass == InitPass /\ [][NextPass]_vars

\* every file of the passes is in the subset safe_load is modelled on, and
\* is parsed
FamilyPassInv ==
    /\ ~safe_load(file).outside
    /\ ~parse_yaml_with_comments(file).raised

\* C2: the comment lines of a tier section are in the file the pass writes,
\* byte for byte and in their order, in the section of the same tier.
C2_CommentsVerbatim ==
    runs >= 1 =>
        \A t \in TierNames :
            IsSubseq(CommentLines(TierLines(before, t)), TierLines(file, t))

\* C3: the lines outside the tier sections and the tier headers are in the
\* file the pass writes, byte for byte and in their order.
C3_NonTierLinesKept ==
    runs >= 1 =>
        IsSubseq(NonTierLines(before), file)

\* C5: a second pass with the same candidates writes the file the first
\* pass wrote.
C5_Idempotent == runs = 2 => file = before

\* C8: every tier that has a section before the pass has its header after
\* it, and the entries listed under it before are listed under it after, in
\* the same order.
C8_EntriesStay ==
    runs >= 1 =>
        \A t \in TierNames :
            HasHeader(before, t) =>
                /\ HasHeader(file, t)
                /\ IsSubseq(TierEntries(before, t), TierEntries(file, t))

-----------------------------------------------------------------------------
(* The pure functions, called on their own: rank_free_models on a catalog *)
(* and merge_models_with_comments on a tier's entries and candidates      *)

MaxModels == 3     \* models in a catalog that is ranked
MaxEntries == 2    \* existing entries of a tier that is merged
MaxNew == 2        \* candidates of a tier that is merged

\* mMini and mPaid have the same score, mBig a higher one
RankPool == {mMini, mPaid, mBig, mMINI}

mini_upper == <<"openrouter", ":", "MINI", ":", "free">>

EntryPool ==
    {Entry(mini_free, FALSE), Entry(mini_free, TRUE), Entry(<<"mini">>, FALSE),
     Entry(manual, FALSE)}

IdPool == {mini_free, mini_upper, free_router}

InitCalls ==
    /\ file = << <<>> >>
    /\ exists = FALSE
    /\ envKey = FALSE
    /\ before = file
    /\ result = NoResult
    /\ exitCode = 0
    /\ trace = <<>>
    /\ runs = 0
    /\ cands = <<>>
    /\ call = <<"none">>
    /\ ret = <<>>
    /\ NoTests

MaxCaps == 11      \* supported_parameters of a catalog entry that is scored

\* free catalog entries.  Identifiers with a keyword of every rule of
\* categorize_model, with none, with a keyword in the provider part only, in
\* upper case, without '/'; context lengths around the limits of the rules
\* and of the score; ages in whole days, (time.time() - created) / 86400,
\* negative when the catalog's timestamp is ahead of the local clock; an
\* entry without a created field has no age
CatPool ==
    LET ids == {<<"meta", "-", "llama", "/", "llama", "-", "3.1", "-", "8b">>,
                <<"deepseek", "/", "deepseek", "-", "r1">>,
                <<"acme", "/", "opus">>, <<"acme", "/", "OPUS">>, <<"opus", "/", "base">>,
                <<"qwen", "/", "qwen3", "-", "coder">>,
                <<"google", "/", "gemma", "-", "2b">>,
                <<"acme", "/", "mini">>,
                <<"mistralai", "/", "mistral", "-", "7b">>,
                <<"google", "/", "gemini", "-", "flash">>,
                <<"google", "/", "gemini", "-", "pro">>,
                <<"acme", "/", "base">>, <<"base">>}
        contexts == {0, 100000, 100001, 127999, 128000, 131072, 1000000, 2000000}
        ages == {-365, -1, 0, 10, 365, 400}
    IN  {Model(id, "0", ctx, caps, TRUE, days) :
            id \in ids, ctx \in contexts, caps \in 0..MaxCaps, days \in ages}
        \cup {Model(id, "0", ctx, caps, FALSE, 0) :
            id \in ids, ctx \in contexts, caps \in 0..MaxCaps}

\* references: padding, up to two scheme prefixes (of the list of
\* normalize_model_id or not), a remainder, up to two free markers
RefPool ==
    {pad \o p \o q \o r \o f \o g \o pad :
        pad \in {<<>>, <<SP>>},
        p \in {<<>>, <<"OpenRouter", ":">>, <<"hf", ":">>}
               \cup {<<x, ":">> : x \in {"openrouter", "anthropic", "google", "kimi", "exo",
                                          "nvidia", "lmstudio"}},
        q \in {<<>>, <<"google", ":">>, <<"openrouter", ":">>},
        r \in {<<"mini">>, <<"MINI">>, <<"acme", "/", "MINI">>},
        f \in {<<>>, <<":", "free">>, <<":", "FREE">>},
        g \in {<<>>, <<":", "free">>}}

\* the calls do not depend on one another: a behaviour makes one
CallRank(models) ==
    /\ call = <<"none">>
    /\ call' = <<"rank", models>>
    /\ ret' = rank_free_models(models)
    /\ UNCHANGED <<file, exists, envKey, before, result, exitCode, trace, runs, cands>>
    /\ UNCHANGED testVars

CallMerge(tier_entries, new_models) ==
    /\ call = <<"none">>
    /\ call' = <<"merge", tier_entries, new_models>>
    /\ ret' = merge_models_with_comments(tier_entries, new_models)
    /\ UNCHANGED <<file, exists, envKey, before, result, exitCode, trace, runs, cands>>
    /\ UNCHANGED testVars

CallScore(model) ==
    /\ call = <<"none">>
    /\ call' = <<"score", model>>
    /\ ret' = calculate_model_score(model)
    /\ UNCHANGED <<file, exists, envKey, before, result, exitCode, trace, runs, cands>>
    /\ UNCHANGED testVars

\* categorize_model on a model as rank_free_models annotates it
CallCategorize(model) ==
    /\ call = <<"none">>
    /\ call' = <<"categorize", model>>
    /\ ret' = categorize_model(Scored(model))
    /\ UNCHANGED <<file, exists, envKey, before, result, exitCode, trace, runs, cands>>
    /\ UNCHANGED testVars

CallNormalize(model_id) ==
    /\ call = <<"none">>
    /\ call' = <<"normalize", model_id>>
    /\ ret' = normalize_model_id(model_id)
    /\ UNCHANGED <<file, exists, envKey, before, result, exitCode, trace, runs, cands>>
    /\ UNCHANGED testVars

NextCalls ==
    /\ call = <<"none">>
    /\ \/ \E models \in SeqsUpTo(RankPool, MaxModels) : CallRank(models)
       \/ \E tier_entries \in SeqsUpTo(EntryPool, MaxEntries),
             new_models \in SeqsUpTo(IdPool, MaxNew) : CallMerge(tier_entries, new_models)
       \/ \E model \in CatPool : CallScore(model)
       \/ \E model \in CatPool : CallCategorize(model)
       \/ \E model_id \in RefPool : CallNormalize(model_id)

SpecCalls == InitCalls /\ [][NextCalls]_vars

\* the permutations of 1..n
Perms(n) == {p \in [1..n -> 1..n] : \A i, j \in 1..n : p[i] = p[j] => i = j}

\* C10: rank_free_models returns the entries of its input, each with its
\* score, ordered by non-increasing score, and entries of equal score are in
\* the order they had in the input.
C10_RankStable ==
    call[1] = "rank" =>
        \E p \in Perms(Len(call[2])) :
            /\ Len(ret) = Len(call[2])
            /\ \A k \in 1..Len(ret) :
                   /\ ret[k].model = call[2][p[k]]
                   /\ ret[k].score = calculate_model_score(call[2][p[k]])
            /\ \A k, l \in 1..Len(ret) :
                   k < l => \/ ret[k].score > ret[l].score
                            \/ ret[k].score = ret[l].score /\ p[k] < p[l]

\* a catalog with two different models of equal score and a model of higher
\* score after them has been ranked
C10_Witness ==
    /\ call[1] = "rank"
    /\ Len(ret) = 3
    /\ ret[2].score = ret[3].score
    /\ ret[2].model # ret[3].model
    /\ ret[1].model = call[2][3]
    /\ ret[1].score > ret[2].score

\* the entry a line of merge_models_with_comments stands for
MergedEntry(l) ==
    IF StartsWith(l, <<SP, SP, "#", SP, "-", SP>>) THEN Entry(SubSeq(l, 7, Len(l)), TRUE)
    ELSE Entry(SubSeq(l, 5, Len(l)), FALSE)

\* C7 as stated: no two entries of the list merge_models_with_comments
\* produces have the same normalize_model_id value.
C7_AllDistinct ==
    call[1] = "merge" =>
        \A i, j \in 1..Len(ret) :
            i # j => normalize_model_id(MergedEntry(ret[i]).m)
                       # normalize_model_id(MergedEntry(ret[j]).m)

\* C7, amended: the existing entries come first, as they were, and no entry
\* appended after them has the normalize_model_id value of another entry of
\* the list.
C7_AppendedDistinct ==
    call[1] = "merge" =>
        /\ Len(ret) >= Len(call[2])
        /\ \A i \in 1..Len(call[2]) : MergedEntry(ret[i]) = call[2][i]
        /\ \A i \in (Len(call[2]) + 1)..Len(ret) :
               /\ ~MergedEntry(ret[i]).c
               /\ \A j \in 1..Len(ret) :
                      i # j => normalize_model_id(MergedEntry(ret[i]).m)
                                 # normalize_model_id(MergedEntry(ret[j]).m)

\* two candidates of one identity met a tier that does not have it: one of
\* them was appended
C7_Witness ==
    /\ call[1] = "merge"
    /\ Len(call[3]) = 2
    /\ call[3][1] # call[3][2]
    /\ normalize_model_id(call[3][1]) = normalize_model_id(call[3][2])
    /\ ~has_duplicate(call[2], call[3][1])
    /\ Len(ret) = Len(call[2]) + 1

-----------------------------------------------------------------------------
(* The classifier and the score on single catalog entries *)

\* the scenario of the specification: meta-llama/llama-3.1-8b, free, with a
\* context of 131072 tokens, created 10 days ago
IsLlamaScenario(m) ==
    /\ m.id = <<"meta", "-", "llama", "/", "llama", "-", "3.1", "-", "8b">>
    /\ m.prompt = "0"
    /\ m.ctx = 131072
    /\ m.created
    /\ m.days = 10

\* C11 as stated: the catalog entry meta-llama/llama-3.1-8b with zero prompt
\* price, context_length 131072 and a creation time 10 days ago is classified
\* into tier hard.
C11_LlamaHard ==
    (call[1] = "categorize" /\ IsLlamaScenario(call[2])) => ret = "hard"

\* C11, amended: that entry is classified into tier easy, whatever the number
\* of its supported parameters: its short name has the keyword 8b of rule 4,
\* which is tried before the context length of rule 6.
C11_LlamaEasy ==
    (call[1] = "categorize" /\ IsLlamaScenario(call[2])) => ret = "easy"

\* the scenario's entry has been classified, its context being one that
\* rule 6 accepts
C11_Witness ==
    /\ call[1] = "categorize"
    /\ IsLlamaScenario(call[2])
    /\ call[2].ctx >= 128000
    /\ ret \in TierNames

\* C12: calculate_model_score returns a value in [0, 1] (in units of
\* 1/ScoreUnit: in 0..ScoreUnit) for every catalog entry, whatever its context
\* length, capability count, creation timestamp and provider.
C12_ScoreInUnitInterval ==
    call[1] = "score" => (0 <= ret /\ ret <= ScoreUnit)

\* text after the last '/'
RECURSIVE AfterLastSlash(_)
AfterLastSlash(s) ==
    IF HasTok(s, "/") THEN AfterLastSlash(SubSeq(s, FirstTok(s, "/", 1) + 1, Len(s)))
    ELSE s

\* the seven rules in order, rule 7 as its four score thresholds: whether each
\* applies to model m with score sc
RuleApplies(m, sc) ==
    LET name == AfterLastSlash(Lower(m.id)) IN
    << /\ AnyKeyword(name, {"opus", "o1", "o3", "thinking"},
                     {<<"deepseek", "-", "r1">>, <<"qwen3", "-", "235b">>})
       /\ (sc > (ScoreUnit \div 10) * 5 \/ m.ctx > 100000),
       /\ AnyKeyword(name, {"coder", "65b", "70b", "405b", "large"},
                     {<<"gemini", "-", "2.5">>})
       /\ sc > (ScoreUnit \div 10) * 4,
       AnyKeyword(name, {"1b", "1.5b", "2b", "3b", "nano"}, {<<"gemma", "-", "2b">>}),
       AnyKeyword(name, {"7b", "8b", "9b", "nano", "mini", "small", "gemma"}, {}),
       AnyKeyword(name, {"14b", "27b", "32b", "flash", "mistral"},
                  {<<"llama", "-", "3.3">>}),
       m.ctx >= 128000 \/ sc > (ScoreUnit \div 10) * 6,
       sc > (ScoreUnit \div 10) * 7,
       sc > (ScoreUnit \div 10) * 5,
       sc > (ScoreUnit \div 10) * 3,
       TRUE >>

RuleTier ==
    <<"super_hard", "hard", "super_easy", "easy", "medium", "hard",
      "hard", "medium", "easy", "super_easy">>

-----------------------------------------------------------------------------
(* The identity normalizer and the merger on single calls *)

\* the scheme prefixes the normalizer recognises, and the free marker
RecognisedPrefixes ==
    {<<p, ":">> : p \in {"openrouter", "anthropic", "google", "kimi", "exo", "nvidia",
                         "lmstudio"}}

free_marker == <<":", "free">>

\* remainders that carry no recognised prefix and no free marker
PlainRests == {<<"mini">>, <<"MINI">>, <<"acme", "/", "MINI">>}

\* C15: normalize_model_id removes at most one recognised scheme prefix,
\* then at most one trailing :free, then lower-cases: references that differ
\* in the recognised prefix they carry, in a trailing :free or in the case of
\* the remainder have the same identity, the lower-cased remainder; a second
\* prefix and a second marker stay; a reference with neither passes through
\* lower-cased.
C15_NormalForm ==
    call[1] = "normalize" =>
        /\ \A p \in RecognisedPrefixes \cup {<<>>}, r \in PlainRests,
              f \in {<<>>, free_marker} :
               Strip(call[2]) = p \o r \o f => ret = Lower(r)
        /\ \A p \in RecognisedPrefixes, q \in RecognisedPrefixes, r \in PlainRests :
               Strip(call[2]) = p \o q \o r => ret = Lower(q \o r)
        /\ \A r \in PlainRests :
               Strip(call[2]) = r \o free_marker \o free_marker
                   => ret = Lower(r \o free_marker)

\* a padded reference with a recognised prefix, an upper-case remainder and
\* the free marker has been normalized to the lower-cased remainder
C15_Witness ==
    /\ call[1] = "normalize"
    /\ call[2] = <<SP, "google", ":", "acme", "/", "MINI", ":", "free", SP>>
    /\ ret = <<"acme", "/", "mini">>

\* C16: the output of merge_models_with_comments is one line per existing
\* entry in order, '  - text' if active and '  # - text' if commented, then
\* as active lines and in candidate order the candidates whose identity is
\* that of no existing entry and of no candidate appended earlier (which is:
\* of no earlier candidate, since an earlier candidate of that identity was
\* appended or had the identity of an entry that stands before).
C16_MergeOutput ==
    call[1] = "merge" =>
        LET old == call[2]
            new == call[3]
            fresh == {k \in 1..Len(new) :
                        /\ \A i \in 1..Len(old) :
                               normalize_model_id(new[k]) # normalize_model_id(old[i].m)
                        /\ \A j \in 1..(k - 1) :
                               normalize_model_id(new[j]) # normalize_model_id(new[k])}
        IN  /\ Len(ret) = Len(old) + Cardinality(fresh)
            /\ \A i \in 1..Len(old) :
                   ret[i] = (IF old[i].c THEN <<SP, SP, "#", SP, "-", SP>>
                             ELSE <<SP, SP, "-", SP>>) \o old[i].m
            /\ \A k \in fresh :
                   ret[Len(old) + Cardinality({j \in fresh : j <= k})]
                       = <<SP, SP, "-", SP>> \o new[k]

\* a tier with a commented-out entry was merged with a candidate of that
\* identity followed by a candidate of another: only the second was appended
C16_Witness ==
    /\ call[1] = "merge"
    /\ Len(call[2]) = 1
    /\ call[2][1].c
    /\ Len(call[3]) = 2
    /\ has_duplicate(call[2], call[3][1])
    /\ ~has_duplicate(call[2], call[3][2])
    /\ Len(ret) = 2
    /\ ret[2] = <<SP, SP, "-", SP>> \o call[3][2]

-----------------------------------------------------------------------------
(* The catalog request of an update *)

\* the last run made the catalog request: the file was there and parsed,
\* and a key was found
Fetched == runs >= 1 /\ Len(call) = 2

\* C14: when the catalog request ends with a status that is not 2xx, or with
\* a body that is no JSON or no JSON object, fetch_all_models raises nothing
\* and returns an empty list, and update_config_with_freeride returns the
\* failure result of a failed fetch.
C14_BadResponseIsNoModels ==
    (Fetched /\ (call[2].status \notin 200..299 \/ call[2].body # "object")) =>
        /\ ~result.raised
        /\ ~result.success
        /\ result.error = "Failed to fetch models from OpenRouter"

\* the active entries a reader finds in tier t of the file after the update
\* that were not entries of tier t before it
WrittenTo(t) ==
    Cardinality({i \in 1..Len(TierEntries(file, t)) :
                    /\ ~TierEntries(file, t)[i].c
                    /\ \A j \in 1..Len(TierEntries(before, t)) :
                           TierEntries(before, t)[j] # TierEntries(file, t)[i]})

\* C19: the 'added' count in the result of a successful update is the number
\* of new active entry lines the update wrote into the tier bodies of the
\* file.
C19_AddedIsWritten ==
    Updated => result.stats.added = SumTiers(ByTier(WrittenTo), 1)

-----------------------------------------------------------------------------
(* The two scans of the file: the parser's and the rewriter's *)

\* the lines of the file a pass read from which parse_yaml_with_comments took
\* the entries of tier t
ParsedFrom(t) == ScanLines(before, models_section(safe_load(before)), t, 0, FALSE, {})

\* the lines of that file which save_config_with_comments replaced by the
\* merged entries of tier t
ReplacedFor(t) ==
    LET None(u) == {} IN ReplacedLines(before, 0, ByTier(None))[t]

\* the tier of the nearest tier header above line k (0-based) of that file
HeaderAbove(k) ==
    LET hs == {j \in 0..(k - 1) : tier_match(Strip(At(before, j))) # NoTier} IN
    IF hs = {} THEN NoTier
    ELSE tier_match(Strip(At(before, CHOOSE j \in hs : \A h \in hs : h <= j)))

\* C17: for every file and every tier, the lines save_config_with_comments
\* replaces for the tier are the lines parse_yaml_with_comments took the
\* tier's entries from (compared on the lines that hold an entry, so that
\* blank lines at either end of a body make no difference).
C17_ScansAgree ==
    runs >= 1 =>
        \A t \in TierNames :
            ParsedFrom(t)
                = {k \in ReplacedFor(t) : LineEntries(Strip(At(before, k))) # <<>>}

\* C20: parse_yaml_with_comments takes every entry line for one tier only,
\* the tier of the nearest header above the line.
C20_OneTierPerLine ==
    runs >= 1 =>
        \A t \in TierNames :
            /\ \A k \in ParsedFrom(t) : HeaderAbove(k) = t
            /\ \A u \in TierNames \ {t} : ParsedFrom(t) \cap ParsedFrom(u) = {}

-----------------------------------------------------------------------------
(* Multispeedtest (src/multispeedtest.py): run_tests dispatches test_model  *)
(* for every entry to a pool of worker threads and collects the results    *)

MaxTests == 3       \* entries dispatched by one run_tests
MaxWorkers == 2     \* largest max_workers

\* parse_model_string: the provider before the first ':', or "unknown"
parse_model_string(model_str) ==
    IF HasTok(model_str, ":")
    THEN [provider |-> SubSeq(model_str, 1, FirstTok(model_str, ":", 1) - 1),
          model |-> SubSeq(model_str, FirstTok(model_str, ":", 1) + 1, Len(model_str))]
    ELSE [provider |-> <<"unknown">>, model |-> model_str]

\* get_api_endpoint: "config" for the url of providers.<provider>, "builtin"
\* for an entry of the endpoints table, "none", or "raised": `provider in
\* providers` is a TypeError when providers is null, and a provider whose
\* value is a non-empty scalar has no get()
get_api_endpoint(provider, providers) ==
    IF providers.kind = "null" THEN "raised"
    ELSE IF providers.kind = "map" /\ providers.name = provider
    THEN IF providers.value = "scalar" THEN "raised"
         ELSE IF providers.value = "url" THEN "config"
         ELSE "none"
    ELSE IF provider \in {<<n>> : n \in {"anthropic", "openai", "google", "kimi", "deepseek",
                                          "ollama", "exo", "lmstudio", "pollinations",
                                          "nvidia"}}
    THEN "builtin"
    ELSE "none"

\* _get_api_key: the credential of the environment, "dummy" for the local
\* providers, or "none"
Multispeedtest_get_api_key(provider, keys) ==
    IF provider \in {<<n>> : n \in {"anthropic", "openai", "google", "kimi", "deepseek",
                                     "nvidia"}}
    THEN IF provider[1] \in keys THEN "key" ELSE "none"
    ELSE IF provider \in {<<n>> : n \in {"ollama", "exo", "lmstudio", "pollinations"}}
    THEN "dummy"
    ELSE "none"

\* the fields of a result record that run_tests and its callers read
TestRecord(tier, model_str, success, error) ==
    [tier |-> tier, model |-> model_str, success |-> success, error |-> error]

\* lines 137-192, given the endpoint and the key: whether an exception
\* leaves test_model, whether a request was sent, and the record returned;
\* http is the outcome of the request ("ok", or "error" for any exception
\* of the call, which line 189 catches)
TestOutcome(tier, model_str, provider, endpoint, api_key, http) ==
    IF endpoint = "raised"
    THEN [raised |-> TRUE, sent |-> FALSE,
          record |-> TestRecord(tier, model_str, FALSE, "exception")]
    ELSE IF endpoint = "none"
    THEN [raised |-> FALSE, sent |-> FALSE,
          record |-> TestRecord(tier, model_str, FALSE, "Kein Endpoint")]
    ELSE IF api_key = "none"
    THEN [raised |-> FALSE, sent |-> FALSE,
          record |-> TestRecord(tier, model_str, FALSE, "Kein API-Key")]
    ELSE IF provider \notin {<<n>> : n \in {"anthropic", "openai", "kimi", "deepseek",
                                             "ollama", "exo", "lmstudio", "pollinations",
                                             "nvidia", "google"}}
    THEN [raised |-> FALSE, sent |-> FALSE,
          record |-> TestRecord(tier, model_str, FALSE, "nicht unterstuetzt")]
    ELSE IF http = "ok"
    THEN [raised |-> FALSE, sent |-> TRUE, record |-> TestRecord(tier, model_str, TRUE, "")]
    ELSE [raised |-> FALSE, sent |-> TRUE,
          record |-> TestRecord(tier, model_str, FALSE, "request failed")]

test_model(tier, model_str, providers, keys, http) ==
    TestOutcome(tier, model_str, parse_model_string(model_str).provider,
                get_api_endpoint(parse_model_string(model_str).provider, providers),
                Multispeedtest_get_api_key(parse_model_string(model_str).provider, keys),
                http)

\* a loop body that only keeps the results of the futures that returned
LoopBodyDropsRaised(done, outcome, entry) ==
    IF outcome.raised THEN done ELSE Append(done, outcome.record)

\* lines 321-333, the body of the as_completed loop for one future:
\* future.result() returns the record of test_model, or raises what
\* test_model raised, and the except clause makes a failure record of it
LoopBody(done, outcome, entry) ==
    IF outcome.raised
    THEN Append(done, TestRecord(entry.tier, entry.model, FALSE, outcome.record.error))
    ELSE Append(done, outcome.record)

\* The entries run_tests dispatches are of a provider with a credential
\* variable, of one without endpoint and credential, and of a local one.
\* The providers section is absent, null, or has an entry for openrouter
\* that is a mapping with a url or a scalar.
InitTests ==
    /\ file = << <<>> >>
    /\ exists = TRUE
    /\ envKey = FALSE
    /\ before = file
    /\ result = NoResult
    /\ exitCode = 0
    /\ trace = <<>>
    /\ runs = 0
    /\ cands = <<>>
    /\ call = <<"none">>
    /\ ret = <<>>
    /\ dispatched \in SeqsUpTo({[tier |-> "easy", model |-> manual],
                                 [tier |-> "easy", model |-> mini_free],
                                 [tier |-> "hard", model |-> <<"ollama", ":", "l3">>]},
                                MaxTests)
    /\ provCfg \in {[kind |-> "absent"], [kind |-> "null"],
                     [kind |-> "map", name |-> <<"openrouter">>, value |-> "url"],
                     [kind |-> "map", name |-> <<"openrouter">>, value |-> "scalar"]}
    /\ envKeys \in {{}, {"anthropic"}}
    /\ workers \in {1, MaxWorkers}
    /\ futures = <<>>
    /\ pc = "submit"
    /\ yielded = {}
    /\ results = <<>>
    /\ self_results = <<>>

\* line 317: executor.submit for the next entry
Submit ==
    /\ pc = "submit"
    /\ Len(futures) < Len(dispatched)
    /\ futures' = Append(futures, [st |-> "pending", http |-> "none"])
    /\ UNCHANGED <<pc, yielded, results, self_results>>

\* line 321: every entry is submitted, the main thread waits in as_completed
Submitted ==
    /\ pc = "submit"
    /\ Len(futures) = Len(dispatched)
    /\ pc' = "collect"
    /\ UNCHANGED <<futures, yielded, results, self_results>>

\* a worker thread takes the oldest pending work item, if fewer than
\* max_workers items are running
Start(k) ==
    /\ futures[k].st = "pending"
    /\ \A j \in 1..(k - 1) : futures[j].st # "pending"
    /\ Cardinality({j \in 1..Len(futures) : futures[j].st = "running"}) < workers
    /\ futures' = [futures EXCEPT ![k].st = "running"]
    /\ UNCHANGED <<pc, yielded, results, self_results>>

\* test_model ends in its worker, the request (if one is sent) having the
\* outcome http
Finish(k, http) ==
    /\ futures[k].st = "running"
    /\ futures' = [futures EXCEPT ![k] =
           [st |-> "done",
            http |-> IF test_model(dispatched[k].tier, dispatched[k].model, provCfg,
                                   envKeys, http).sent
                     THEN http ELSE "unsent",
            outcome |-> test_model(dispatched[k].tier, dispatched[k].model, provCfg,
                                   envKeys, http)]]
    /\ UNCHANGED <<pc, yielded, results, self_results>>

\* lines 321-333: as_completed yields a future that is done and was not
\* yielded before, and the loop body runs on it
Collect(k) ==
    /\ pc = "collect"
    /\ k \notin yielded
    /\ futures[k].st = "done"
    /\ yielded' = yielded \cup {k}
    /\ results' = LoopBody(results, futures[k].outcome, dispatched[k])
    /\ UNCHANGED <<futures, pc, self_results>>

\* lines 315-336: as_completed is exhausted, the with block has waited for
\* the workers, self.results is assigned and returned
Return ==
    /\ pc = "collect"
    /\ yielded = 1..Len(dispatched)
    /\ \A k \in 1..Len(futures) : futures[k].st = "done"
    /\ self_results' = results
    /\ pc' = "returned"
    /\ UNCHANGED <<futures, yielded, results>>

NextTests ==
    /\ \/ Submit
       \/ Submitted
       \/ \E k \in 1..Len(futures) : Start(k)
       \/ \E k \in 1..Len(futures), http \in {"ok", "error"} : Finish(k, http)
       \/ \E k \in 1..Len(futures) : Collect(k)
       \/ Return
    /\ UNCHANGED <<file, exists, envKey, before, result, exitCode, trace, runs, cands,
                   call, ret, dispatched, provCfg, envKeys, workers>>

SpecTests == InitTests /\ [][NextTests]_vars

\* C13: run_tests returns exactly one record for each entry it dispatched,
\* whatever the order in which the workers finish and whichever calls fail
\* or raise: the records are those of the dispatched entries in some order,
\* each with the tier and model of its entry, successful exactly when the
\* entry's own request was sent and answered; and self.results is assigned
\* only after every worker has finished.
C13_OneRecordEach ==
    /\ pc # "returned" => self_results = <<>>
    /\ pc = "returned" =>
        /\ \A k \in 1..Len(dispatched) : Len(futures) >= k /\ futures[k].st = "done"
        /\ Len(self_results) = Len(dispatched)
        /\ \E p \in Perms(Len(dispatched)) :
               \A n \in 1..Len(dispatched) :
                   /\ self_results[n].tier = dispatched[p[n]].tier
                   /\ self_results[n].model = dispatched[p[n]].model
                   /\ self_results[n].success = (futures[p[n]].http = "ok")
                   /\ (~self_results[n].success) => self_results[n].error # ""

\* three entries were tested by two workers; the first entry's request
\* failed, the second raised in its worker, the third succeeded and was
\* collected first
C13_Witness ==
    /\ pc = "returned"
    /\ Len(dispatched) = 3
    /\ workers = 2
    /\ futures[1].http = "error"
    /\ futures[2].outcome.raised
    /\ futures[3].http = "ok"
    /\ self_results[1].model = dispatched[3].model
    /\ self_results[1].success

\* C21: for every providers section and every environment, test_model on
\* an entry whose scheme is openrouter returns (and does not raise) a
\* record with success = False and an error message, and sends no request;
\* an entry whose provider has no endpoint or no credential is reported the
\* same way; and once run_tests has returned, each such entry has its
\* failure record in self.results.
C21_UnknownProviderReported ==
    \A k \in 1..Len(futures) :
        (/\ futures[k].st = "done"
         /\ \/ parse_model_string(dispatched[k].model).provider = <<"openrouter">>
            \/ get_api_endpoint(parse_model_string(dispatched[k].model).provider,
                                provCfg) = "none"
            \/ Multispeedtest_get_api_key(parse_model_string(dispatched[k].model).provider,
                                          envKeys) = "none")
        => /\ ~futures[k].outcome.raised
           /\ ~futures[k].outcome.sent
           /\ ~futures[k].outcome.record.success
           /\ futures[k].outcome.record.error # ""
           /\ pc = "returned" =>
                  \E n \in 1..Len(self_results) :
                      /\ self_results[n].model = dispatched[k].model
                      /\ ~self_results[n].success

====
